---- MODULE Spec2Model ----
(***************************************************************************)
(* Model of the netorcai coordinator: control.go (login, player and visu   *)
(* sessions, game-logic session, kick) and the prompt's executor.          *)
(*                                                                         *)
(* One connection = one session task (handleClient).  A step of the model  *)
(* is a section of a task between two blocking points: a receive in a      *)
(* select, a mutex.Lock, or a channel send.  Channels are unbuffered: a    *)
(* send is a rendezvous with the receiving select.  The channel fields of  *)
(* GameLogicClient are taken to be allocated where a receive statement     *)
(* exists for them (start, playerAction); no statement ever receives from  *)
(* gameStarts or gameEnds, so a send on them never completes.              *)
(***************************************************************************)
EXTENDS Integers, Sequences, FiniteSets, TLC

\* ------------------------------------------------------------ constants
GAME_NOT_RUNNING == 0
GAME_RUNNING == 1
GAME_FINISHED == 2

CLIENT_UNLOGGED == 0
CLIENT_LOGGED == 1
CLIENT_READY == 2
CLIENT_THINKING == 3
CLIENT_FINISHED == 4
CLIENT_KICKED == 5

\* Validated ranges of the 'set' command.
NbTurnsMaxLimit == 65535
NbClientsMaxLimit == 1024
DelayMin == 50
DelayMax == 10000
MaxNicknameLen == 10

\* ------------------------------------------------------------ bounds
\* Connections accepted by the listener during one run.
NbConnections == 2
\* Frames of the game logic processed by the turn loop.
MaxGLFrames == 2

\* Entries the pending batch of player actions may hold.
MaxBatch == 2

Clients == 1..NbConnections
\* Player ids and action payloads arriving on the playerAction channel.
PlayerIDs == {0, 1}
ActionValues == {"a", "b"}
\* Values typed after 'set VARIABLE': below, inside and above the ranges.
TurnsValues == {0, 1, 3, 65536}
PlayersValues == {0, 1, 2, 1025}
VisusValues == {-1, 0, 1, 1025}
\* Kinds of frame a reader task hands over: a read error (remote close),
\* a frame the typed reader rejects, a frame it accepts.
FrameKinds == {"err", "bad", "ok"}

VARIABLES
    gameState,          \* GlobalState.gameState
    gameLogic,          \* GlobalState.gameLogic (slice of connections)
    players,            \* GlobalState.players
    visus,              \* GlobalState.visus
    playerID,           \* playerID of the bucket element of each session
    nbPlayersMax,       \* GlobalState.nbPlayersMax
    nbVisusMax,         \* GlobalState.nbVisusMax
    nbTurnsMax,         \* GlobalState.nbTurnsMax
    mutex,              \* GlobalState.mutex: "free" or the task holding it
    role,               \* role of the LOGIN a connection sent ("none" before)
    pc,                 \* position of the session task of each connection
    clientState,        \* Client.state
    kickReason,         \* reason a session is about to be kicked with
    wire,               \* frames written to (out) / read from (in) a socket
    lateLogins,         \* connections whose LOGIN was processed after start
    turnBuffer,         \* handlePlayerOrVisu: turnBuffer
    lastTurnNumberSent, \* handlePlayerOrVisu: lastTurnNumberSent
    promptpc,           \* position of the command interpreter
    nbSpecialPlayersMax,         \* limit written by 'set nb-splayers-max'
    millisecondsBeforeFirstTurn, \* delay written by 'set delay-first-turn'
    millisecondsBetweenTurns,    \* delay written by 'set delay-turns'
    printed,            \* the line written by the last 'print' command
    turnNumber,         \* handleGameLogic: turnNumber
    playerActions,      \* handleGameLogic: playerActions
    initialNbPlayers,   \* handleGameLogic: initialNbPlayers
    sleepers,           \* delayed DO_TURN tasks still sleeping
    clearing,           \* delayed DO_TURN tasks between send and clear
    glFrames,           \* frames processed by the turn loop so far
    gameLogicExit,      \* values sent on the onexit channel
    panicked            \* the process died of a runtime panic

shellVars == <<nbSpecialPlayersMax, millisecondsBeforeFirstTurn,
               millisecondsBetweenTurns, printed>>
cfgVars == <<nbPlayersMax, nbVisusMax, nbTurnsMax, shellVars>>
bucketVars == <<gameLogic, players, visus, playerID>>
sessVars == <<role, pc, clientState, kickReason, wire, lateLogins>>
pvVars == <<turnBuffer, lastTurnNumberSent>>
coordVars == <<turnNumber, playerActions, initialNbPlayers, sleepers,
               clearing, glFrames>>
procVars == <<gameLogicExit, panicked>>
vars == <<gameState, mutex, promptpc, cfgVars, bucketVars, sessVars,
          pvVars, coordVars, procVars>>

\* ------------------------------------------------------------ helpers
Range(s) == {s[i] : i \in 1..Len(s)}

Min(S) == CHOOSE x \in S : \A y \in S : x <= y

Msg(dir, type, arg) == [dir |-> dir, type |-> type, arg |-> arg]

Out(c, type) == {i \in 1..Len(wire[c]) :
                    wire[c][i].dir = "out" /\ wire[c][i].type = type}

\* The process is alive: nobody signalled its exit and it did not panic.
Running == gameLogicExit = <<>> /\ ~panicked

\* The connections are numbered in the order their first frame is handled.
NextToLogin(c) == pc[c] = "unconnected" /\
                  \A d \in Clients : d < c => pc[d] # "unconnected"

\* A variant of the typed reader that does not compare the turn number.
AnyTurnAck(kind, n, expected) == kind = "ok"

\* The typed reader readTurnACKMessage: message type, turn_number equal to
\* the expected one, actions.
ValidTurnAck(kind, n, expected) == kind = "ok" /\ n = expected

\* The error the typed reader returns, as the kick reason quotes it.
TurnAckError(kind, n, expected) ==
    IF kind = "ok"
    THEN "Invalid TURN_ACK received. Invalid value (turn_number="
            \o ToString(n) \o "): expecting " \o ToString(expected)
    ELSE "Invalid TURN_ACK received."

\* ------------------------------------------------------------ admission
\* Variants of the admission tests, against which the properties are tried.
GameNeverStarted(gs) == FALSE

BucketOverfull(n, max) == n > max

SecondGameLogicLogged(n) == n >= 2

\* "LOGIN denied: Game has been started"
GameStarted(gs) == gs # GAME_NOT_RUNNING

\* "LOGIN denied: Maximum number of players / visus reached"
BucketFull(n, max) == n >= max

\* "LOGIN denied: A game logic is already logged in"
GameLogicLogged(n) == n >= 1

\* kick: state KICKED and a KICK frame written (its result is ignored).
Kicked(w, c, reason) == [w EXCEPT ![c] = Append(@, Msg("out", "KICK", reason))]

\* A login that ends with a kick: the session is over.
LoginDenied(c, r, reason) ==
    /\ role' = [role EXCEPT ![c] = r]
    /\ pc' = [pc EXCEPT ![c] = "closed"]
    /\ clientState' = [clientState EXCEPT ![c] = CLIENT_KICKED]
    /\ wire' = Kicked(wire, c, reason)
    /\ lateLogins' = IF gameState = GAME_NOT_RUNNING THEN lateLogins
                     ELSE lateLogins \cup {c}
    /\ UNCHANGED <<kickReason, bucketVars>>

\* A login answered by LOGIN_ACK: the session enters its role's function.
LoginAccepted(c, r, at) ==
    /\ role' = [role EXCEPT ![c] = r]
    /\ pc' = [pc EXCEPT ![c] = at]
    /\ wire' = [wire EXCEPT ![c] = Append(@, Msg("out", "LOGIN_ACK", ""))]
    /\ lateLogins' = IF gameState = GAME_NOT_RUNNING THEN lateLogins
                     ELSE lateLogins \cup {c}
    /\ UNCHANGED <<clientState, kickReason>>

\* A first frame: whether it could be read, and the fields of its content.
\* A nickname is a sequence of characters.
FirstFrame(err, type, nickname, r) ==
    [err |-> err, message_type |-> type, nickname |-> nickname, role |-> r]

\* The regular expression \A\S{1,10}\z on the nickname.
ValidNickname(nickname) ==
    /\ Len(nickname) >= 1 /\ Len(nickname) <= MaxNicknameLen
    /\ \A i \in 1..Len(nickname) : nickname[i] \notin {" ", "\t", "\n"}

\* A variant of readLoginMessage's role test that lets every role through.
AnyRole(r) == TRUE

ValidRole(r) == r \in {"player", "visualization", "game logic"}

\* readLoginMessage: the error it returns, or "" for a valid LOGIN.
readLoginMessage(data) ==
    IF data.message_type # "LOGIN"
    THEN "Received '" \o data.message_type
            \o "' message type, while LOGIN was expected"
    ELSE IF ~ValidNickname(data.nickname) THEN "Invalid nickname"
    ELSE IF ~ValidRole(data.role) THEN "Invalid role '" \o data.role \o "'"
    ELSE ""

\* The first frames tried: one that cannot be read, one of another message
\* type, nicknames that are empty, too long or hold a blank, a role the
\* server does not know, and a valid LOGIN.
FirstFrames ==
    { FirstFrame(TRUE, "", <<>>, ""),
      FirstFrame(FALSE, "TURN_ACK", <<"a">>, "player"),
      FirstFrame(FALSE, "LOGIN", <<>>, "player"),
      FirstFrame(FALSE, "LOGIN", <<"a", " ", "b">>, "player"),
      FirstFrame(FALSE, "LOGIN",
                 <<"a", "b", "c", "d", "e", "f", "g", "h", "i", "j", "k">>,
                 "visualization"),
      FirstFrame(FALSE, "LOGIN", <<"a">>, "referee"),
      FirstFrame(FALSE, "LOGIN", <<"a">>, "player") }

\* The error that ends the login at its first frame, or "".
FirstFrameError(msg) ==
    IF msg.err THEN "EOF" ELSE readLoginMessage(msg)

\* First frame unreadable or not a valid LOGIN: the session ends with a
\* kick before the mutex is taken.  A frame that readLoginMessage lets
\* through with a role outside the three cases of the switch ends in its
\* default branch.
LoginInvalid(c, msg) ==
    /\ Running /\ NextToLogin(c)
    /\ FirstFrameError(msg) # ""
          \/ msg.role \notin {"player", "visualization", "game logic"}
    /\ role' = [role EXCEPT ![c] = "invalid"]
    /\ pc' = [pc EXCEPT ![c] = "closed"]
    /\ clientState' = [clientState EXCEPT ![c] = CLIENT_KICKED]
    /\ wire' = Kicked([wire EXCEPT ![c] = Append(@, Msg("in", "first", msg))],
                      c,
                      IF FirstFrameError(msg) # ""
                      THEN "Invalid first message: " \o FirstFrameError(msg)
                      ELSE "LOGIN denied: Unknown role '" \o msg.role
                              \o "'")
    /\ lateLogins' = IF gameState = GAME_NOT_RUNNING THEN lateLogins
                     ELSE lateLogins \cup {c}
    /\ UNCHANGED <<kickReason, bucketVars>>
    /\ UNCHANGED <<gameState, mutex, promptpc, cfgVars, pvVars, coordVars,
                   procVars>>

LoginPlayer(c, sendOk) ==
    /\ Running /\ NextToLogin(c) /\ mutex = "free"
    /\ IF GameStarted(gameState)
         THEN LoginDenied(c, "player", "LOGIN denied: Game has been started")
       ELSE IF BucketFull(Len(players), nbPlayersMax)
         THEN LoginDenied(c, "player",
                          "LOGIN denied: Maximum number of players reached")
       ELSE IF ~sendOk
         THEN LoginDenied(c, "player",
                          "LOGIN denied: Could not send LOGIN_ACK")
       ELSE /\ LoginAccepted(c, "player", "loop")
            /\ players' = Append(players, c)
            /\ playerID' = [playerID EXCEPT ![c] = -1]
            /\ UNCHANGED <<gameLogic, visus>>
    /\ UNCHANGED <<gameState, mutex, promptpc, cfgVars, pvVars, coordVars,
                   procVars>>

LoginVisu(c, sendOk) ==
    /\ Running /\ NextToLogin(c) /\ mutex = "free"
    /\ IF BucketFull(Len(visus), nbVisusMax)
         THEN LoginDenied(c, "visualization",
                          "LOGIN denied: Maximum number of visus reached")
       ELSE IF ~sendOk
         THEN LoginDenied(c, "visualization",
                          "LOGIN denied: Could not send LOGIN_ACK")
       ELSE /\ LoginAccepted(c, "visualization", "loop")
            /\ visus' = Append(visus, c)
            /\ playerID' = [playerID EXCEPT ![c] = -1]
            /\ UNCHANGED <<gameLogic, players>>
    /\ UNCHANGED <<gameState, mutex, promptpc, cfgVars, pvVars, coordVars,
                   procVars>>

LoginGameLogic(c, sendOk) ==
    /\ Running /\ NextToLogin(c) /\ mutex = "free"
    /\ IF GameStarted(gameState)
         THEN LoginDenied(c, "game logic",
                          "LOGIN denied: Game has been started")
       ELSE IF GameLogicLogged(Len(gameLogic))
         THEN LoginDenied(c, "game logic",
                          "LOGIN denied: A game logic is already logged in")
       ELSE IF ~sendOk
         THEN LoginDenied(c, "game logic",
                          "LOGIN denied: Could not send LOGIN_ACK")
       ELSE /\ LoginAccepted(c, "game logic", "waitStart")
            /\ gameLogic' = Append(gameLogic, c)
            /\ UNCHANGED <<players, visus, playerID>>
    /\ UNCHANGED <<gameState, mutex, promptpc, cfgVars, pvVars, coordVars,
                   procVars>>

\* ------------------------------------------------------------ fan-in
\* The turn loop's insertion of one player action into the pending batch:
\* the entry of the same player is swapped to the end and overwritten;
\* actionFound is declared false and never assigned.
InsertAction(batch, action) ==
    LET n == Len(batch)
        same == {i \in 1..n : batch[i].PlayerID = action.PlayerID}
        swapped == IF same = {} THEN batch
                   ELSE [batch EXCEPT ![Min(same)] = batch[n], ![n] = action]
        actionFound == FALSE
    IN IF ~actionFound THEN Append(swapped, action) ELSE swapped

\* A removal that truncates the bucket without the swap.
TruncateOnly(bucket, c) == SubSeq(bucket, 1, Len(bucket) - 1)

\* Swap-and-truncate removal of a session from its bucket.
RemoveFromBucket(bucket, c) ==
    LET n == Len(bucket)
        at == {i \in 1..n : bucket[i] = c}
    IN IF at = {} THEN bucket
       ELSE SubSeq([bucket EXCEPT ![Min(at)] = bucket[n]], 1, n - 1)

\* ------------------------------------------------------------ player / visu
\* The newTurn case of the session's select, for the sessions in D that the
\* coordinator's send reaches; sendOk are those whose socket write succeeds.
TurnSentNow(c) == clientState[c] = CLIENT_READY

TurnWire(D, turn, sendOk) ==
    [c \in Clients |-> IF c \in D /\ TurnSentNow(c) /\ c \in sendOk
                       THEN Append(wire[c], Msg("out", "TURN", turn))
                       ELSE wire[c]]

TurnPc(D, sendOk) ==
    [c \in Clients |-> IF c \in D /\ TurnSentNow(c) /\ c \notin sendOk
                       THEN "kicking" ELSE pc[c]]

DeliverTurn(D, turn, sendOk) ==
    /\ lastTurnNumberSent' =
         [c \in Clients |-> IF c \in D /\ TurnSentNow(c) THEN turn
                            ELSE lastTurnNumberSent[c]]
    /\ clientState' =
         [c \in Clients |-> IF c \in D /\ TurnSentNow(c) /\ c \in sendOk
                            THEN CLIENT_THINKING ELSE clientState[c]]
    /\ kickReason' =
         [c \in Clients |-> IF c \in D /\ TurnSentNow(c) /\ c \notin sendOk
                            THEN "Cannot send TURN." ELSE kickReason[c]]
    /\ turnBuffer' =
         [c \in Clients |->
            IF c \in D /\ clientState[c] = CLIENT_THINKING
            THEN IF Len(turnBuffer[c]) > 0
                 THEN [turnBuffer[c] EXCEPT ![1] = turn]
                 ELSE Append(turnBuffer[c], turn)
            ELSE turnBuffer[c]]

\* The session leaves its select for kickLoggedPlayerOrVisu, which begins
\* with mutex.Lock.
ToKick(c, reason) ==
    /\ pc' = [pc EXCEPT ![c] = "kicking"]
    /\ kickReason' = [kickReason EXCEPT ![c] = reason]
    /\ UNCHANGED <<gameState, mutex, promptpc, cfgVars, bucketVars, role,
                   clientState, lateLogins, pvVars, coordVars, procVars>>

\* The socket of c after a frame has been read from it: a frame of message
\* type TURN_ACK is recorded with its turn number.
Received(c, kind, n) ==
    IF kind = "ok"
    THEN [wire EXCEPT ![c] = Append(@, Msg("in", "TURN_ACK", n))]
    ELSE wire

\* The incomingMessages case of the session's select: a frame of kind
\* `kind`, claiming turn number n and carrying `actions`, is handled.
ClientFrame(c, kind, n, actions, sendOk) ==
    /\ Running /\ pc[c] = "loop"
    /\ IF kind = "err"
         THEN ToKick(c, "Cannot read TURN_ACK.") /\ UNCHANGED wire
       ELSE IF ~ValidTurnAck(kind, n, lastTurnNumberSent[c])
         THEN /\ ToKick(c, TurnAckError(kind, n, lastTurnNumberSent[c]))
              /\ wire' = Received(c, kind, n)
       ELSE IF clientState[c] # CLIENT_THINKING
         THEN /\ ToKick(c, "Received a TURN_ACK but the client state is not THINKING")
              /\ wire' = Received(c, kind, n)
       ELSE \* forward the actions under the mutex, then flush the buffer
            /\ mutex = "free"
            /\ (role[c] = "player" /\ Len(gameLogic) = 1)
                  => pc[gameLogic[1]] = "turnLoop"
            /\ playerActions' =
                 IF role[c] = "player" /\ Len(gameLogic) = 1
                 THEN InsertAction(playerActions,
                                   [PlayerID |-> -1, TurnNumber |-> n,
                                    Actions |-> actions])
                 ELSE playerActions
            /\ IF Len(turnBuffer[c]) > 0
                 THEN IF sendOk
                        THEN /\ wire' = [Received(c, kind, n) EXCEPT ![c] =
                                  Append(@, Msg("out", "TURN",
                                                turnBuffer[c][1]))]
                             /\ clientState' = [clientState EXCEPT
                                                  ![c] = CLIENT_THINKING]
                             /\ UNCHANGED <<pc, kickReason>>
                        ELSE /\ pc' = [pc EXCEPT ![c] = "kicking"]
                             /\ kickReason' = [kickReason EXCEPT
                                                 ![c] = "Cannot send TURN."]
                             /\ wire' = Received(c, kind, n)
                             /\ UNCHANGED clientState
                 ELSE /\ clientState' = [clientState EXCEPT
                                           ![c] = CLIENT_READY]
                      /\ wire' = Received(c, kind, n)
                      /\ UNCHANGED <<pc, kickReason>>
            /\ UNCHANGED <<gameState, mutex, promptpc, cfgVars, bucketVars,
                           role, lateLogins, pvVars, turnNumber,
                           initialNbPlayers, sleepers, clearing, glFrames, procVars>>

\* A variant of the kick in which the session goes back to its select.
KickWithoutReturn(c) ==
    /\ Running /\ pc[c] = "kicking" /\ mutex = "free"
    /\ clientState' = [clientState EXCEPT ![c] = CLIENT_KICKED]
    /\ wire' = Kicked(wire, c, kickReason[c])
    /\ pc' = [pc EXCEPT ![c] = "loop"]
    /\ UNCHANGED <<gameState, mutex, promptpc, cfgVars, bucketVars, role,
                   kickReason, lateLogins, pvVars, coordVars, procVars>>

\* kickLoggedPlayerOrVisu: removal from the bucket under the mutex, then kick.
KickRemove(c) ==
    /\ Running /\ pc[c] = "kicking" /\ mutex = "free"
    /\ IF role[c] = "player"
         THEN /\ players' = RemoveFromBucket(players, c)
              /\ UNCHANGED visus
         ELSE /\ visus' = RemoveFromBucket(visus, c)
              /\ UNCHANGED players
    /\ clientState' = [clientState EXCEPT ![c] = CLIENT_KICKED]
    /\ wire' = Kicked(wire, c, kickReason[c])
    /\ pc' = [pc EXCEPT ![c] = "closed"]
    /\ kickReason' = [kickReason EXCEPT ![c] = ""]
    /\ UNCHANGED <<gameState, mutex, promptpc, cfgVars, gameLogic, playerID,
                   role, lateLogins, pvVars, coordVars, procVars>>

\* ------------------------------------------------------------ game logic
\* A variant of the fatal path of the game logic that signals nothing.
GameLogicKickedOnly(c, reason) ==
    /\ clientState' = [clientState EXCEPT ![c] = CLIENT_KICKED]
    /\ wire' = Kicked(wire, c, reason)
    /\ pc' = [pc EXCEPT ![c] = "closed"]
    /\ UNCHANGED <<gameLogicExit, panicked>>

\* kick of the game logic followed by onexit <- 1.
GameLogicAbort(c, reason) ==
    /\ clientState' = [clientState EXCEPT ![c] = CLIENT_KICKED]
    /\ wire' = Kicked(wire, c, reason)
    /\ pc' = [pc EXCEPT ![c] = "closed"]
    /\ gameLogicExit' = Append(gameLogicExit, 1)
    /\ UNCHANGED panicked

\* Before start, the select takes a frame (or a read error) of the game
\* logic; the task goes on to mutex.Lock.
GLPreStartFrame(c, kind) ==
    /\ Running /\ pc[c] = "waitStart"
    /\ pc' = [pc EXCEPT ![c] = "preStartKick"]
    /\ kickReason' = [kickReason EXCEPT ![c] =
          IF kind = "err" THEN "Game logic error."
          ELSE "Received a game logic message but the game has not started"]
    /\ UNCHANGED <<gameState, mutex, promptpc, cfgVars, bucketVars, role,
                   clientState, wire, lateLogins, pvVars, coordVars,
                   procVars>>

\* Under the mutex: kick, then gameLogic = gameLogic[:0].
GLPreStartKick(c) ==
    /\ Running /\ pc[c] = "preStartKick" /\ mutex = "free"
    /\ clientState' = [clientState EXCEPT ![c] = CLIENT_KICKED]
    /\ wire' = Kicked(wire, c, kickReason[c])
    /\ gameLogic' = <<>>
    /\ pc' = [pc EXCEPT ![c] = "closed"]
    /\ kickReason' = [kickReason EXCEPT ![c] = ""]
    /\ UNCHANGED <<gameState, mutex, promptpc, cfgVars, players, visus,
                   playerID, role, lateLogins, pvVars, coordVars, procVars>>

\* rand.Perm(n): the permutations of 0..n-1, as sequences.
Perm(n) ==
    {p \in [1..n -> 0..(n - 1)] : \A i, j \in 1..n : i # j => p[i] # p[j]}

\* for playerIndex, player := range players { player.playerID = ... }:
\* players is a slice of structs, so the loop variable is a copy of the
\* element and the assignment leaves the element's field as it was.
AssignedInRange(ids, bucket, playerIDs) ==
    LET player == [playerIndex \in 1..Len(bucket) |->
                      [client |-> bucket[playerIndex],
                       playerID |-> playerIDs[playerIndex]]]
    IN ids

\* After the start signal: player ids are drawn (and stored in copies of the
\* bucket's elements), DO_INIT is sent under the mutex.
GLSendDoInit(c, sendOk) ==
    /\ Running /\ pc[c] = "init" /\ mutex = "free"
    /\ \E playerIDs \in Perm(Len(players)) :
          playerID' = AssignedInRange(playerID, players, playerIDs)
    /\ IF sendOk
         THEN /\ wire' = [wire EXCEPT ![c] = Append(@,
                    Msg("out", "DO_INIT",
                        <<Len(players), nbTurnsMax>>))]
              /\ pc' = [pc EXCEPT ![c] = "waitInitAck"]
              /\ UNCHANGED <<clientState, procVars>>
         ELSE GameLogicAbort(c, "Cannot send DO_INIT.")
    /\ UNCHANGED <<gameState, mutex, promptpc, cfgVars, gameLogic, players,
                   visus, role, kickReason, lateLogins, pvVars, coordVars>>

\* The frame after DO_INIT.  A frame readDoInitAckMessage rejects makes the
\* task format msg.err, which is nil: a runtime panic.
GLInitAck(c, kind) ==
    /\ Running /\ pc[c] = "waitInitAck"
    /\ IF kind = "err"
         THEN GameLogicAbort(c, "Cannot read DO_INIT_ACK.")
       ELSE IF kind = "bad"
         THEN /\ panicked' = TRUE
              /\ UNCHANGED <<clientState, wire, pc, gameLogicExit>>
       ELSE /\ wire' = [wire EXCEPT ![c] = Append(@,
                            Msg("in", "DO_INIT_ACK", ""))]
            /\ pc' = [pc EXCEPT ![c] = "gameStarts"]
            /\ UNCHANGED <<clientState, procVars>>
    /\ UNCHANGED <<gameState, mutex, promptpc, cfgVars, bucketVars, role,
                   kickReason, lateLogins, pvVars, coordVars>>

\* GAME_STARTS under the mutex: one send on player.gameStarts per player;
\* no session receives from that channel, so with a player in the bucket
\* the task stays in the first send, holding the mutex.
GLGameStarts(c) ==
    /\ Running /\ pc[c] = "gameStarts" /\ mutex = "free"
    /\ initialNbPlayers' = Len(players)
    /\ IF Len(players) > 0
         THEN /\ pc' = [pc EXCEPT ![c] = "blocked"]
              /\ mutex' = "gameLogic"
         ELSE /\ pc' = [pc EXCEPT ![c] = "sleepFirst"]
              /\ UNCHANGED mutex
    /\ UNCHANGED <<gameState, promptpc, cfgVars, bucketVars, role,
                   clientState, kickReason, wire, lateLogins, pvVars,
                   turnNumber, playerActions, sleepers, clearing, glFrames, procVars>>

\* After the first delay: turnNumber := 0, an empty batch, the first DO_TURN.
GLFirstDoTurn(c) ==
    /\ Running /\ pc[c] = "sleepFirst"
    /\ turnNumber' = 0
    /\ playerActions' = <<>>
    /\ wire' = [wire EXCEPT ![c] = Append(@, Msg("out", "DO_TURN", <<>>))]
    /\ pc' = [pc EXCEPT ![c] = "turnLoop"]
    /\ UNCHANGED <<gameState, mutex, promptpc, cfgVars, bucketVars, role,
                   clientState, kickReason, lateLogins, pvVars,
                   initialNbPlayers, sleepers, clearing, glFrames,
                   procVars>>

\* The playerAction case of the turn loop: one action handed over by a
\* player session is inserted into the pending batch.
PlayerActionArrives(c, p, a) ==
    /\ Running /\ pc[c] = "turnLoop" /\ Len(playerActions) < MaxBatch
    /\ playerActions' = InsertAction(playerActions,
                            [PlayerID |-> p, TurnNumber |-> turnNumber,
                             Actions |-> a])
    /\ UNCHANGED <<gameState, mutex, promptpc, cfgVars, bucketVars, sessVars,
                   pvVars, turnNumber, initialNbPlayers, sleepers, clearing,
                   glFrames, procVars>>

\* The sessions the fan-out reaches: the sends go in bucket order, players
\* then visus, each one a rendezvous with a session waiting in its select.
FanOutTargets == players \o visus

ReadyPrefix(T) ==
    LET away == {i \in 1..Len(T) : pc[T[i]] # "loop"}
    IN IF away = {} THEN Len(T) ELSE Min(away) - 1

\* The game goes on after the turn just fanned out.
GameGoesOn(turn, max) == turn < max

\* The incomingMessages case of the turn loop.
GLTurnFrame(c, kind, sendOk) ==
    /\ Running /\ pc[c] = "turnLoop" /\ glFrames < MaxGLFrames
    /\ IF kind = "err"
         THEN /\ GameLogicAbort(c, "Cannot read DO_TURN_ACK.")
              /\ UNCHANGED <<mutex, kickReason, pvVars, coordVars>>
       ELSE IF kind = "bad"
         THEN /\ GameLogicAbort(c, "Invalid DO_TURN_ACK message.")
              /\ UNCHANGED <<mutex, kickReason, pvVars, coordVars>>
       ELSE LET T == FanOutTargets
                k == ReadyPrefix(T)
                D == {T[i] : i \in 1..k}
            IN /\ mutex = "free"
               /\ DeliverTurn(D, turnNumber, sendOk)
               /\ wire' = [TurnWire(D, turnNumber, sendOk) EXCEPT ![c] =
                              Append(@, Msg("in", "DO_TURN_ACK", ""))]
               /\ glFrames' = glFrames + 1
               /\ IF k < Len(T)
                    THEN \* a session is away from its select
                         /\ mutex' = "gameLogic"
                         /\ pc' = [TurnPc(D, sendOk) EXCEPT ![c] = "blocked"]
                         /\ UNCHANGED <<turnNumber, sleepers>>
                    ELSE /\ turnNumber' = turnNumber + 1
                         /\ UNCHANGED mutex
                         /\ IF GameGoesOn(turnNumber + 1, nbTurnsMax)
                              THEN /\ sleepers' = sleepers + 1
                                   /\ pc' = TurnPc(D, sendOk)
                              ELSE /\ pc' = [TurnPc(D, sendOk) EXCEPT
                                               ![c] = "gameEnds"]
                                   /\ UNCHANGED sleepers
               /\ UNCHANGED <<playerActions, initialNbPlayers, clearing,
                              procVars>>
    /\ UNCHANGED <<gameState, promptpc, cfgVars, bucketVars, role,
                   lateLogins>>

\* GAME_ENDS under the mutex: one send on gameEnds per player and visu; no
\* session receives from that channel.
GLGameEnds(c) ==
    /\ Running /\ pc[c] = "gameEnds" /\ mutex = "free"
    /\ IF Len(FanOutTargets) > 0
         THEN /\ pc' = [pc EXCEPT ![c] = "blocked"]
              /\ mutex' = "gameLogic"
         ELSE /\ pc' = [pc EXCEPT ![c] = "turnLoop"]
              /\ UNCHANGED mutex
    /\ UNCHANGED <<gameState, promptpc, cfgVars, bucketVars, role,
                   clientState, kickReason, wire, lateLogins, pvVars,
                   coordVars, procVars>>

\* The delayed task wakes up and sends DO_TURN with the batch as it is now.
DoTurnSend ==
    /\ Running /\ sleepers > 0 /\ Len(gameLogic) = 1
    /\ wire' = [wire EXCEPT ![gameLogic[1]] =
                   Append(@, Msg("out", "DO_TURN", playerActions))]
    /\ sleepers' = sleepers - 1
    /\ clearing' = clearing + 1
    /\ UNCHANGED <<gameState, mutex, promptpc, cfgVars, bucketVars, role, pc,
                   clientState, kickReason, lateLogins, pvVars, turnNumber,
                   playerActions, initialNbPlayers, glFrames,
                   procVars>>

\* ... and then clears the batch: playerActions = playerActions[:0].
DoTurnClear ==
    /\ Running /\ clearing > 0
    /\ playerActions' = <<>>
    /\ clearing' = clearing - 1
    /\ UNCHANGED <<gameState, mutex, promptpc, cfgVars, bucketVars, sessVars,
                   pvVars, turnNumber, initialNbPlayers, sleepers, glFrames, procVars>>

\* ------------------------------------------------------------ shutdown
\* The players and visualizations whose session is in its loop.
Remaining == {c \in Clients : role[c] \in {"player", "visualization"}
                               /\ pc[c] = "loop"}

\* The surrounding process, on a value sent on gameLogicExit: every
\* remaining client is kicked with 'netorcai abort' and leaves its bucket.
Abort ==
    /\ gameLogicExit # <<>> /\ ~panicked /\ Remaining # {}
    /\ wire' = [c \in Clients |->
                  IF c \in Remaining
                  THEN Append(wire[c], Msg("out", "KICK", "netorcai abort"))
                  ELSE wire[c]]
    /\ clientState' = [c \in Clients |->
                         IF c \in Remaining THEN CLIENT_KICKED
                         ELSE clientState[c]]
    /\ pc' = [c \in Clients |-> IF c \in Remaining THEN "closed" ELSE pc[c]]
    /\ players' = SelectSeq(players, LAMBDA c : c \notin Remaining)
    /\ visus' = SelectSeq(visus, LAMBDA c : c \notin Remaining)
    /\ UNCHANGED <<gameState, mutex, promptpc, cfgVars, gameLogic, playerID,
                   role, kickReason, lateLogins, pvVars, coordVars, procVars>>

\* ------------------------------------------------------------ prompt
\* A variant of 'start' that does not look at the phase.
StartCmdAnyPhase ==
    /\ Running /\ promptpc = "idle" /\ mutex = "free"
    /\ IF Len(gameLogic) = 1
         THEN /\ gameState' = GAME_RUNNING
              /\ promptpc' = "sendStart"
              /\ mutex' = "prompt"
         ELSE UNCHANGED <<gameState, promptpc, mutex>>
    /\ UNCHANGED <<cfgVars, bucketVars, sessVars, pvVars, coordVars,
                   procVars>>

\* 'start': under the mutex, the phase changes and the start signal is sent.
StartCmd ==
    /\ Running /\ promptpc = "idle" /\ mutex = "free"
    /\ IF gameState = GAME_NOT_RUNNING /\ Len(gameLogic) = 1
         THEN /\ gameState' = GAME_RUNNING
              /\ promptpc' = "sendStart"
              /\ mutex' = "prompt"
         ELSE UNCHANGED <<gameState, promptpc, mutex>>
    /\ UNCHANGED <<cfgVars, bucketVars, sessVars, pvVars, coordVars,
                   procVars>>

\* The rendezvous on start with the game logic's select; the prompt unlocks.
StartDeliver(c) ==
    /\ Running /\ promptpc = "sendStart"
    /\ Len(gameLogic) = 1 /\ gameLogic[1] = c /\ pc[c] = "waitStart"
    /\ pc' = [pc EXCEPT ![c] = "init"]
    /\ promptpc' = "idle"
    /\ mutex' = "free"
    /\ UNCHANGED <<gameState, cfgVars, bucketVars, role, clientState,
                   kickReason, wire, lateLogins, pvVars, coordVars, procVars>>

\* A range test that accepts every value.
AnyValue(v, lo, hi) == TRUE

InRange(v, lo, hi) == v >= lo /\ v <= hi

SetNbTurnsMax(v) ==
    /\ Running /\ promptpc = "idle"
    /\ nbTurnsMax' = IF InRange(v, 1, NbTurnsMaxLimit) THEN v ELSE nbTurnsMax
    /\ UNCHANGED <<gameState, mutex, promptpc, nbPlayersMax, nbVisusMax,
                   shellVars, bucketVars, sessVars, pvVars, coordVars, procVars>>

SetNbPlayersMax(v) ==
    /\ Running /\ promptpc = "idle"
    /\ nbPlayersMax' = IF InRange(v, 1, NbClientsMaxLimit) THEN v
                       ELSE nbPlayersMax
    /\ UNCHANGED <<gameState, mutex, promptpc, nbTurnsMax, nbVisusMax,
                   shellVars, bucketVars, sessVars, pvVars, coordVars, procVars>>

SetNbVisusMax(v) ==
    /\ Running /\ promptpc = "idle"
    /\ nbVisusMax' = IF InRange(v, 0, NbClientsMaxLimit) THEN v
                     ELSE nbVisusMax
    /\ UNCHANGED <<gameState, mutex, promptpc, nbTurnsMax, nbPlayersMax,
                   shellVars, bucketVars, sessVars, pvVars, coordVars, procVars>>

\* ------------------------------------------------- the text of the commands
\* A value typed at the prompt is a sequence of characters.
DecimalDigits == <<"0", "1", "2", "3", "4", "5", "6", "7", "8", "9">>
HexDigits == DecimalDigits \o <<"a", "b", "c", "d", "e", "f">>

\* The digit a character stands for in the base, or -1.
DigitValue(ch, base) ==
    LET found == {i \in 1..base : HexDigits[i] = ch}
    IN  IF found = {} THEN -1 ELSE (CHOOSE i \in found : TRUE) - 1

RECURSIVE Number(_, _)
Number(digits, base) ==
    IF digits = <<>> THEN 0
    ELSE Number(SubSeq(digits, 1, Len(digits) - 1), base) * base
            + DigitValue(digits[Len(digits)], base)

AllDigits(digits, base) ==
    \A i \in 1..Len(digits) : DigitValue(digits[i], base) >= 0

Drop(text, n) == SubSeq(text, n + 1, Len(text))

SyntaxError == [ok |-> FALSE, val |-> 0]

\* strconv.ParseUint(s, 0, 64): the base is read from the prefix, "0x",
\* "0o" and "0b" when at least one more character follows, a leading "0"
\* alone means octal, and anything else is decimal.
ParseUint(text) ==
    LET prefixed == Len(text) >= 3 /\ text[1] = "0"
        base == IF text[1] # "0" THEN 10
                ELSE IF prefixed /\ text[2] \in {"x", "X"} THEN 16
                ELSE IF prefixed /\ text[2] \in {"o", "O"} THEN 8
                ELSE IF prefixed /\ text[2] \in {"b", "B"} THEN 2
                ELSE 8
        digits == IF text[1] # "0" THEN text
                  ELSE IF prefixed /\ text[2] \in
                             {"x", "X", "o", "O", "b", "B"}
                       THEN Drop(text, 2)
                  ELSE Drop(text, 1)
    IN  IF text = <<>> THEN SyntaxError
        ELSE IF AllDigits(digits, base)
             THEN [ok |-> TRUE, val |-> Number(digits, base)]
        ELSE SyntaxError

\* strconv.ParseInt(s, 0, 64): an optional sign, then ParseUint.
ParseInt(text) ==
    LET signed == text # <<>> /\ text[1] \in {"+", "-"}
        un == ParseUint(IF signed THEN Drop(text, 1) ELSE text)
    IN  IF text = <<>> THEN SyntaxError
        ELSE IF signed /\ text[1] = "-"
             THEN [ok |-> un.ok, val |-> 0 - un.val]
        ELSE un

RECURSIVE Power(_, _)
Power(b, e) == IF e = 0 THEN 1 ELSE b * Power(b, e - 1)

\* strconv.ParseFloat(s, 64) on the texts that denote whole numbers: an
\* optional sign, decimal digits, then an optional exponent "e" with
\* digits.  A "0x" prefix asks for a hexadecimal mantissa, which needs a "p"
\* exponent, so without one it is a syntax error.
ParseFloat(text) ==
    LET signed == text # <<>> /\ text[1] \in {"+", "-"}
        body == IF signed THEN Drop(text, 1) ELSE text
        marks == {i \in 1..Len(body) : body[i] \in {"e", "E"}}
        at == IF marks = {} THEN Len(body) + 1
              ELSE CHOOSE i \in marks : \A j \in marks : i <= j
        mantissa == SubSeq(body, 1, at - 1)
        exponent == Drop(body, at)
        wellFormed == /\ mantissa # <<>> /\ AllDigits(mantissa, 10)
                      /\ AllDigits(exponent, 10)
                      /\ marks # {} => exponent # <<>>
        magnitude == Number(mantissa, 10) * Power(10, Number(exponent, 10))
    IN  IF ~wellFormed THEN SyntaxError
        ELSE [ok |-> TRUE,
              val |-> IF signed /\ text[1] = "-" THEN 0 - magnitude
                      ELSE magnitude]

\* The verb %v on an int, and on a float64 that is a whole number below
\* 10^21: the decimal digits, with a minus sign below zero.
RECURSIVE ToDecimal(_)
ToDecimal(n) ==
    IF n < 0 THEN <<"-">> \o ToDecimal(0 - n)
    ELSE IF n < 10 THEN <<DecimalDigits[n + 1]>>
    ELSE ToDecimal(n \div 10) \o <<DecimalDigits[(n % 10) + 1]>>

IntVariables ==
    {"nb-turns-max", "nb-players-max", "nb-splayers-max", "nb-visus-max"}
FloatVariables == {"delay-first-turn", "delay-turns"}
acceptedSetVariables == IntVariables \cup FloatVariables

\* The texts typed as VALUE.
Values ==
    { <<"3">>, <<"0", "1", "0">>, <<"0", "x", "3">>, <<"-", "1">>,
      <<"6", "5", "5", "3", "6">>, <<"1", "e", "2">>, <<"3", "a">> }

\* The variable of the global state a name stands for.
Stored(variable) ==
    CASE variable = "nb-turns-max" -> nbTurnsMax
      [] variable = "nb-players-max" -> nbPlayersMax
      [] variable = "nb-splayers-max" -> nbSpecialPlayersMax
      [] variable = "nb-visus-max" -> nbVisusMax
      [] variable = "delay-first-turn" -> millisecondsBeforeFirstTurn
      [] variable = "delay-turns" -> millisecondsBetweenTurns

\* The range 'set' tests the parsed value against.
Lowest(variable) ==
    CASE variable \in {"nb-turns-max", "nb-players-max"} -> 1
      [] variable \in {"nb-splayers-max", "nb-visus-max"} -> 0
      [] variable \in FloatVariables -> DelayMin

Highest(variable) ==
    CASE variable = "nb-turns-max" -> NbTurnsMaxLimit
      [] variable \in {"nb-players-max", "nb-splayers-max", "nb-visus-max"}
            -> NbClientsMaxLimit
      [] variable \in FloatVariables -> DelayMax

\* What 'set variable value' leaves in the variable: the parsed value when
\* it parses and passes the range test, the old value otherwise.
NewValue(variable, value) ==
    LET parsed == IF variable \in IntVariables THEN ParseInt(value)
                  ELSE ParseFloat(value)
    IN  IF parsed.ok /\ InRange(parsed.val, Lowest(variable), Highest(variable))
        THEN parsed.val
        ELSE Stored(variable)

\* 'set' typed at the prompt: no lock, no test of the phase.
SetCmd(variable, value) ==
    /\ Running /\ promptpc = "idle"
    /\ nbTurnsMax' = IF variable = "nb-turns-max"
                      THEN NewValue(variable, value) ELSE nbTurnsMax
    /\ nbPlayersMax' = IF variable = "nb-players-max"
                        THEN NewValue(variable, value) ELSE nbPlayersMax
    /\ nbSpecialPlayersMax' = IF variable = "nb-splayers-max"
                               THEN NewValue(variable, value)
                               ELSE nbSpecialPlayersMax
    /\ nbVisusMax' = IF variable = "nb-visus-max"
                      THEN NewValue(variable, value) ELSE nbVisusMax
    /\ millisecondsBeforeFirstTurn' =
          IF variable = "delay-first-turn" THEN NewValue(variable, value)
          ELSE millisecondsBeforeFirstTurn
    /\ millisecondsBetweenTurns' =
          IF variable = "delay-turns" THEN NewValue(variable, value)
          ELSE millisecondsBetweenTurns
    /\ UNCHANGED <<gameState, mutex, promptpc, printed, bucketVars, sessVars,
                   pvVars, coordVars, procVars>>

\* The line 'print variable' writes for a value: "%v=%v".
OutputLine(variable, v) == <<variable, ToDecimal(v)>>

PrintCmd(variable) ==
    /\ Running /\ promptpc = "idle"
    /\ printed' = OutputLine(variable, Stored(variable))
    /\ UNCHANGED <<gameState, mutex, promptpc, nbTurnsMax, nbPlayersMax,
                   nbSpecialPlayersMax, nbVisusMax,
                   millisecondsBeforeFirstTurn, millisecondsBetweenTurns,
                   bucketVars, sessVars, pvVars, coordVars, procVars>>

\* ------------------------------------------------------------ specification
Init ==
    /\ gameState = GAME_NOT_RUNNING
    /\ gameLogic = <<>> /\ players = <<>> /\ visus = <<>>
    /\ playerID = [c \in Clients |-> -1]
    /\ nbPlayersMax \in {v \in PlayersValues : InRange(v, 1, NbClientsMaxLimit)}
    /\ nbVisusMax \in {v \in VisusValues : InRange(v, 0, NbClientsMaxLimit)}
    /\ nbTurnsMax \in {v \in TurnsValues : InRange(v, 1, NbTurnsMaxLimit)}
    /\ nbSpecialPlayersMax = 0
    /\ millisecondsBeforeFirstTurn = DelayMin
    /\ millisecondsBetweenTurns = DelayMin
    /\ printed = <<>>
    /\ mutex = "free"
    /\ role = [c \in Clients |-> "none"]
    /\ pc = [c \in Clients |-> "unconnected"]
    /\ clientState = [c \in Clients |-> CLIENT_UNLOGGED]
    /\ kickReason = [c \in Clients |-> ""]
    /\ wire = [c \in Clients |-> <<>>]
    /\ lateLogins = {}
    /\ turnBuffer = [c \in Clients |-> <<0>>]
    /\ lastTurnNumberSent = [c \in Clients |-> -1]
    /\ promptpc = "idle"
    /\ turnNumber = 0
    /\ playerActions = <<>>
    /\ initialNbPlayers = 0
    /\ sleepers = 0 /\ clearing = 0 /\ glFrames = 0
    /\ gameLogicExit = <<>>
    /\ panicked = FALSE

Next ==
    \/ \E c \in Clients, msg \in FirstFrames : LoginInvalid(c, msg)
    \/ \E c \in Clients, ok \in BOOLEAN : LoginPlayer(c, ok)
    \/ \E c \in Clients, ok \in BOOLEAN : LoginVisu(c, ok)
    \/ \E c \in Clients, ok \in BOOLEAN : LoginGameLogic(c, ok)
    \/ \E c \in Clients, kind \in FrameKinds, ok \in BOOLEAN :
          \E n \in {lastTurnNumberSent[c], lastTurnNumberSent[c] + 1} :
             ClientFrame(c, kind, n, "a", ok)
    \/ \E c \in Clients : KickRemove(c)
    \/ \E c \in Clients, kind \in FrameKinds : GLPreStartFrame(c, kind)
    \/ \E c \in Clients : GLPreStartKick(c)
    \/ \E c \in Clients, ok \in BOOLEAN : GLSendDoInit(c, ok)
    \/ \E c \in Clients, kind \in FrameKinds : GLInitAck(c, kind)
    \/ \E c \in Clients : GLGameStarts(c)
    \/ \E c \in Clients : GLFirstDoTurn(c)
    \/ \E c \in Clients, kind \in FrameKinds, ok \in SUBSET Clients :
          GLTurnFrame(c, kind, ok)
    \/ \E c \in Clients : GLGameEnds(c)
    \/ DoTurnSend
    \/ DoTurnClear
    \/ StartCmd
    \/ \E c \in Clients : StartDeliver(c)
    \/ \E v \in TurnsValues : SetNbTurnsMax(v)
    \/ \E v \in PlayersValues : SetNbPlayersMax(v)
    \/ \E v \in VisusValues : SetNbVisusMax(v)
    \/ Abort

Spec == Init /\ [][Next]_vars

\* Admission: every step that reads or writes the phase, the buckets, the
\* limits or a player / visu session.  The steps of the game left out change
\* none of these (they only take the mutex or end the process), so each
\* behaviour of Spec, restricted to them, is a behaviour of SpecAdmission.
NextAdmission ==
    \/ \E c \in Clients, msg \in FirstFrames : LoginInvalid(c, msg)
    \/ \E c \in Clients, ok \in BOOLEAN : LoginPlayer(c, ok)
    \/ \E c \in Clients, ok \in BOOLEAN : LoginVisu(c, ok)
    \/ \E c \in Clients, ok \in BOOLEAN : LoginGameLogic(c, ok)
    \/ \E c \in Clients, kind \in FrameKinds, ok \in BOOLEAN :
          \E n \in {lastTurnNumberSent[c], lastTurnNumberSent[c] + 1} :
             ClientFrame(c, kind, n, "a", ok)
    \/ \E c \in Clients : KickRemove(c)
    \/ \E c \in Clients, kind \in FrameKinds : GLPreStartFrame(c, kind)
    \/ \E c \in Clients : GLPreStartKick(c)
    \/ StartCmd
    \/ \E c \in Clients : StartDeliver(c)
    \/ \E v \in TurnsValues : SetNbTurnsMax(v)
    \/ \E v \in PlayersValues : SetNbPlayersMax(v)
    \/ \E v \in VisusValues : SetNbVisusMax(v)

SpecAdmission == Init /\ [][NextAdmission]_vars

\* The game under a fixed configuration, among connections whose first frame
\* is a valid LOGIN: every step but the 'set' commands and the kick of an
\* invalid first frame, which writes nothing but that connection's socket.
NextGame ==
    \/ \E c \in Clients, ok \in BOOLEAN : LoginPlayer(c, ok)
    \/ \E c \in Clients, ok \in BOOLEAN : LoginVisu(c, ok)
    \/ \E c \in Clients, ok \in BOOLEAN : LoginGameLogic(c, ok)
    \/ \E c \in Clients, kind \in FrameKinds, ok \in BOOLEAN :
          \E n \in {lastTurnNumberSent[c], lastTurnNumberSent[c] + 1} :
             ClientFrame(c, kind, n, "a", ok)
    \/ \E c \in Clients : KickRemove(c)
    \/ \E c \in Clients, kind \in FrameKinds : GLPreStartFrame(c, kind)
    \/ \E c \in Clients : GLPreStartKick(c)
    \/ \E c \in Clients, ok \in BOOLEAN : GLSendDoInit(c, ok)
    \/ \E c \in Clients, kind \in FrameKinds : GLInitAck(c, kind)
    \/ \E c \in Clients : GLGameStarts(c)
    \/ \E c \in Clients : GLFirstDoTurn(c)
    \/ \E c \in Clients, kind \in FrameKinds, ok \in SUBSET Clients :
          GLTurnFrame(c, kind, ok)
    \/ \E c \in Clients : GLGameEnds(c)
    \/ DoTurnSend
    \/ DoTurnClear
    \/ StartCmd
    \/ \E c \in Clients : StartDeliver(c)
    \/ Abort

SpecGame == Init /\ [][NextGame]_vars

\* Fan-in: the game-logic session alone, its playerAction channel driven by
\* an environment that hands over actions of the players in PlayerIDs.
NextFanIn ==
    \/ \E c \in Clients, ok \in BOOLEAN : LoginGameLogic(c, ok)
    \/ StartCmd
    \/ \E c \in Clients : StartDeliver(c)
    \/ \E c \in Clients, ok \in BOOLEAN : GLSendDoInit(c, ok)
    \/ \E c \in Clients, kind \in FrameKinds : GLInitAck(c, kind)
    \/ \E c \in Clients : GLGameStarts(c)
    \/ \E c \in Clients : GLFirstDoTurn(c)
    \/ \E c \in Clients, kind \in FrameKinds, ok \in SUBSET Clients :
          GLTurnFrame(c, kind, ok)
    \/ \E c \in Clients : GLGameEnds(c)
    \/ DoTurnSend
    \/ DoTurnClear
    \/ \E c \in Clients, p \in PlayerIDs, a \in ActionValues :
          PlayerActionArrives(c, p, a)

SpecFanIn == Init /\ [][NextFanIn]_vars


\* The command interpreter alone: 'set' and 'print' typed as text.
NextPrompt ==
    \/ \E variable \in acceptedSetVariables, value \in Values :
          SetCmd(variable, value)
    \/ \E variable \in acceptedSetVariables : PrintCmd(variable)

SpecPrompt == Init /\ [][NextPrompt]_vars

\* ------------------------------------------------------------ properties
Registered == Range(players) \cup Range(visus) \cup Range(gameLogic)

LoginAck == Msg("out", "LOGIN_ACK", "")

Kick(reason) == Msg("out", "KICK", reason)

\* C1: in every reachable state the players bucket holds at most
\* nbPlayersMax sessions and the visus bucket at most nbVisusMax, whatever
\* the interleaving of logins, kicks and 'set' commands.
BucketsWithinLimits ==
    /\ Len(players) <= nbPlayersMax
    /\ Len(visus) <= nbVisusMax

\* C2: at most one game-logic session is registered at any time: the
\* gameLogic bucket never holds two sessions, and at most one connection is
\* inside the game-logic function.
AtMostOneGameLogic ==
    /\ Len(gameLogic) <= 1
    /\ Cardinality({c \in Clients : role[c] = "game logic"
                                     /\ pc[c] # "closed"}) <= 1
    /\ \A c \in Clients :
          (role[c] = "game logic" /\ pc[c] # "closed") => gameLogic = <<c>>

\* A second game logic asked to log in while one was registered, and was
\* turned away.
SecondGameLogicDenied ==
    \E c \in Clients :
       /\ role[c] = "game logic"
       /\ wire[c] = <<Kick("LOGIN denied: A game logic is already logged in")>>
       /\ Len(gameLogic) = 1 /\ gameLogic[1] # c

\* C3: a LOGIN with role player or game logic handled while the phase is
\* not NOT_RUNNING is answered by KICK 'LOGIN denied: Game has been
\* started' alone (no LOGIN_ACK), and the session is in no bucket.
LateLoginDenied ==
    \A c \in lateLogins :
       role[c] \in {"player", "game logic"} =>
          /\ wire[c] = <<Kick("LOGIN denied: Game has been started")>>
          /\ c \notin Registered
          /\ pc[c] = "closed"

\* A player asked to log in after 'start' and was turned away.
LatePlayerDenied ==
    \E c \in lateLogins :
       /\ role[c] = "player"
       /\ gameState = GAME_RUNNING
       /\ wire[c] = <<Kick("LOGIN denied: Game has been started")>>

\* A connection's first frame is handled as a visualization LOGIN.
VisuLogin(c) == pc[c] = "unconnected" /\ role'[c] = "visualization"

VisuAccepted(c) ==
    /\ wire'[c] = <<LoginAck>>
    /\ visus' = Append(visus, c)
    /\ pc'[c] = "loop"

\* C4 (as stated): a visualization LOGIN is accepted in every phase, and
\* rejected only when the visus bucket already holds nbVisusMax sessions.
VisuRejectedOnlyWhenFull ==
    [][\A c \in Clients :
          VisuLogin(c) => (VisuAccepted(c) <=> Len(visus) < nbVisusMax)]_vars

\* C4 (amended): a visualization LOGIN is rejected, whatever the phase,
\* exactly when the visus bucket holds nbVisusMax sessions or more, or when
\* LOGIN_ACK cannot be written; otherwise LOGIN_ACK is sent and the session
\* is appended to visus.
VisuRejectedWhenFullOrUnwritable ==
    [][\A c \in Clients :
          VisuLogin(c) =>
             IF Len(visus) >= nbVisusMax
             THEN /\ wire'[c] = <<Kick(
                        "LOGIN denied: Maximum number of visus reached")>>
                  /\ visus' = visus
             ELSE \/ VisuAccepted(c)
                  \/ /\ wire'[c] = <<Kick(
                            "LOGIN denied: Could not send LOGIN_ACK")>>
                     /\ visus' = visus]_vars

\* A visualization logged in after 'start' and was accepted.
LateVisuAccepted ==
    \E c \in lateLogins :
       /\ role[c] = "visualization"
       /\ gameState = GAME_RUNNING
       /\ wire[c] = <<LoginAck>>
       /\ c \in Range(visus)

\* The game-logic session went past the GAME_STARTS section.
PastGameStarts(g) ==
    role[g] = "game logic" /\ pc[g] \in {"sleepFirst", "turnLoop", "gameEnds"}

\* C5: every accepted player and visualization is sent GAME_STARTS exactly
\* once, and before any TURN: once the game logic is past the GAME_STARTS
\* section, each session accepted before the start and still registered has
\* one GAME_STARTS on its socket, ahead of every TURN.
GameStartsSentOnce ==
    \A g \in Clients :
       PastGameStarts(g) =>
          \A c \in (Range(players) \cup Range(visus)) \ lateLogins :
             /\ Cardinality(Out(c, "GAME_STARTS")) = 1
             /\ \A i \in Out(c, "GAME_STARTS"), j \in Out(c, "TURN") : i < j

\* C7: the game logic is sent one DO_TURN per turn: the first after
\* DO_INIT_ACK, each later one only after the DO_TURN_ACK of the previous
\* one, whatever frames the game logic sends.  On its socket every DO_TURN
\* directly follows the acknowledgement that triggered it.
DoTurnOnlyAfterAck ==
    \A g \in Clients :
       \A i \in Out(g, "DO_TURN") :
          /\ i > 1
          /\ wire[g][i - 1].dir = "in"
          /\ wire[g][i - 1].type = IF Out(g, "DO_TURN") \cap 1..(i - 1) = {}
                                   THEN "DO_INIT_ACK" ELSE "DO_TURN_ACK"

\* C8: the player_actions array of every DO_TURN holds at most one entry per
\* playerID.
OneEntryPerPlayer ==
    \A g \in Clients :
       \A k \in Out(g, "DO_TURN") :
          LET batch == wire[g][k].arg
          IN \A i, j \in 1..Len(batch) :
                i # j => batch[i].PlayerID # batch[j].PlayerID

\* C9: no accepted action is lost by the clearing of the batch: every entry
\* of the batch a delayed task clears was carried by a DO_TURN.
ClearedActionsWereSent ==
    [][clearing' < clearing =>
          \A i \in 1..Len(playerActions) :
             \E g \in Clients : \E k \in Out(g, "DO_TURN") :
                playerActions[i] \in Range(wire[g][k].arg)]_vars

\* The turn loop handles a valid DO_TURN_ACK and hands the turn to the
\* registered sessions.
TurnFanOut(g) ==
    /\ role[g] = "game logic" /\ pc[g] = "turnLoop"
    /\ wire'[g] = Append(wire[g], Msg("in", "DO_TURN_ACK", ""))
    /\ FanOutTargets # <<>>

\* C10: no TURN with a turn number of nbTurnsMax or more is ever fanned
\* out, even when the game logic keeps sending DO_TURN_ACK.
FanOutBelowNbTurnsMax ==
    [][\A g \in Clients : TurnFanOut(g) => turnNumber < nbTurnsMax]_vars

\* A TURN_ACK is read from c whose turn number is not the last one sent.
MismatchedTurnAck(c) ==
    /\ pc[c] = "loop"
    /\ Len(wire'[c]) = Len(wire[c]) + 1
    /\ LET last == wire'[c][Len(wire'[c])]
       IN /\ last.dir = "in" /\ last.type = "TURN_ACK"
          /\ last.arg # lastTurnNumberSent[c]

\* What the session does with it: it leaves for the kick with a reason
\* naming both values, and hands nothing to the game logic.
MismatchKicks(c) ==
    LET n == wire'[c][Len(wire'[c])].arg
    IN /\ pc'[c] = "kicking"
       /\ kickReason'[c] =
            "Invalid TURN_ACK received. Invalid value (turn_number="
               \o ToString(n) \o "): expecting "
               \o ToString(lastTurnNumberSent[c])
       /\ playerActions' = playerActions

\* The kick of a player or visualization completes: the reason is written
\* and the session has left its bucket.
KickCompletes(c) ==
    /\ wire'[c] = Append(wire[c], Kick(kickReason[c]))
    /\ c \notin Range(players') \cup Range(visus')
    /\ playerActions' = playerActions

CoordinatorBlocked == \E g \in Clients : pc[g] = "blocked"

\* C13: a player that sends an invalid TURN_ACK or disconnects during the
\* game is kicked alone and the game goes on: when such a frame of a player
\* is handled during the game, the coordinator is not stopped holding the
\* mutex that the kick needs.
PlayerFaultLeavesGameAlive ==
    [][\A c \in Clients :
          (/\ role[c] = "player" /\ gameState = GAME_RUNNING
           /\ pc[c] = "loop" /\ pc'[c] = "kicking")
             => ~CoordinatorBlocked]_vars

\* The frame that follows DO_INIT is handled and is not accepted.
InitAckRejected(g) ==
    /\ pc[g] = "waitInitAck" /\ pc'[g] # "gameStarts"
    /\ <<pc[g], wire[g], panicked>>' # <<pc[g], wire[g], panicked>>

\* C15: when the frame received after DO_INIT is not a valid DO_INIT_ACK,
\* the game logic is kicked with a reason that begins 'Invalid DO_INIT_ACK
\* message.' (or, for a read error, 'Cannot read DO_INIT_ACK.'), nothing
\* else is sent to it, and the process is signalled to exit.
InvalidInitAckKicksGameLogic ==
    [][\A g \in Clients :
          InitAckRejected(g) =>
             /\ \E r \in {"Invalid DO_INIT_ACK message.",
                           "Cannot read DO_INIT_ACK."} :
                   wire'[g] = Append(wire[g], Kick(r))
             /\ gameLogicExit' = Append(gameLogicExit, 1)
             /\ pc'[g] = "closed"]_vars

\* The turn loop has handled a valid DO_TURN_ACK and counted the turn.
TurnAckCounted(g) ==
    /\ role[g] = "game logic" /\ pc[g] = "turnLoop"
    /\ wire'[g] = Append(wire[g], Msg("in", "DO_TURN_ACK", ""))
    /\ turnNumber' = turnNumber + 1

\* C16: once the nbTurnsMax-th DO_TURN_ACK is processed the phase becomes
\* FINISHED and the coordinator leaves its turn loop for the end of the
\* game.
LastAckFinishesGame ==
    [][\A g \in Clients :
          (TurnAckCounted(g) /\ turnNumber' >= nbTurnsMax)
             => (gameState' = GAME_FINISHED /\ pc'[g] # "turnLoop")]_vars

\* No player or visualization has sent anything since its LOGIN.
ClientsIdle ==
    \A c \in Clients :
       role[c] \in {"player", "visualization"} =>
          /\ pc[c] = "loop"
          /\ \A i \in 1..Len(wire[c]) : wire[c][i].dir = "out"

\* C17: connected players and visualizations that never send a TURN_ACK do
\* not block the game: with idle clients the coordinator is never stopped
\* in a send to one of them.
IdleClientsNeverBlock == ClientsIdle => ~CoordinatorBlocked

\* C18: at fan-out the coordinator does not wait for a client whose queue
\* cannot take the turn: the step that fans a turn out never leaves the
\* coordinator stopped in a send.
FanOutNeverWaits ==
    [][\A g \in Clients : TurnFanOut(g) => pc'[g] # "blocked"]_vars

\* The turn loop reads a frame of the game logic and rejects it.
TurnAckRejected(g) ==
    role[g] = "game logic" /\ pc[g] = "turnLoop" /\ pc'[g] = "closed"

StartSignalSent == promptpc = "idle" /\ promptpc' = "sendStart"

\* The game logic takes the start signal.
StartSignalTaken(g) == pc[g] = "waitStart" /\ pc'[g] = "init"

\* C19: 'start' moves the phase to RUNNING and signals the game logic
\* exactly when the phase is NOT_RUNNING and a game logic is registered:
\* the phase changes, and a start signal is sent, only in a step taken from
\* such a state, it changes no bucket, and the game logic takes one signal
\* per change of phase.  In any other state no step changes the phase or
\* sends a signal.
StartOnlyWhenReady ==
    [][/\ (gameState' # gameState \/ StartSignalSent) =>
            /\ gameState = GAME_NOT_RUNNING /\ Len(gameLogic) = 1
            /\ gameState' = GAME_RUNNING /\ StartSignalSent
            /\ <<gameLogic, players, visus>>' = <<gameLogic, players, visus>>
       /\ \A g \in Clients :
            StartSignalTaken(g) =>
               /\ promptpc = "sendStart" /\ promptpc' = "idle"
               /\ gameState = GAME_RUNNING /\ gameLogic = <<g>>]_vars

\* The game was started and the game logic took the signal.
GameStartedByPrompt ==
    /\ gameState = GAME_RUNNING /\ promptpc = "idle"
    /\ \E g \in Clients : role[g] = "game logic" /\ pc[g] = "init"

\* The whole number a text denotes in the syntax of Go's integer literals
\* (a prefix selects the base, a leading 0 means octal) with the decimal
\* numeral %v writes for it; <<>> when the text denotes none.
IntegerDenoted(value) ==
    CASE value = <<"3">> -> <<3, <<"3">>>>
      [] value = <<"0", "1", "0">> -> <<8, <<"8">>>>
      [] value = <<"0", "x", "3">> -> <<3, <<"3">>>>
      [] value = <<"-", "1">> -> <<-1, <<"-", "1">>>>
      [] value = <<"6", "5", "5", "3", "6">>
            -> <<65536, <<"6", "5", "5", "3", "6">>>>
      [] OTHER -> <<>>

\* The same in the syntax of Go's floating-point literals, which are
\* decimal unless they carry a binary exponent.
FloatDenoted(value) ==
    CASE value = <<"3">> -> <<3, <<"3">>>>
      [] value = <<"0", "1", "0">> -> <<10, <<"1", "0">>>>
      [] value = <<"-", "1">> -> <<-1, <<"-", "1">>>>
      [] value = <<"6", "5", "5", "3", "6">>
            -> <<65536, <<"6", "5", "5", "3", "6">>>>
      [] value = <<"1", "e", "2">> -> <<100, <<"1", "0", "0">>>>
      [] OTHER -> <<>>

Denoted(variable, value) ==
    IF variable \in IntVariables THEN IntegerDenoted(value)
    ELSE FloatDenoted(value)

\* The validated range of each variable.
Validated(variable) ==
    CASE variable = "nb-turns-max" -> 1..65535
      [] variable = "nb-players-max" -> 1..1024
      [] variable \in {"nb-splayers-max", "nb-visus-max"} -> 0..1024
      [] variable \in FloatVariables -> 50..10000

Acceptable(variable, value) ==
    /\ Denoted(variable, value) # <<>>
    /\ Denoted(variable, value)[1] \in Validated(variable)

\* The line 'print variable' writes when it follows 'set variable value'.
SetThenPrint(variable, value) ==
    OutputLine(variable, NewValue(variable, value))

\* C20 as stated: 'set VAR X' followed by 'print VAR' prints the text X if
\* and only if X lies in the validated range, and an out-of-range or
\* unparsable X leaves the stored value unchanged.
SetThenPrintShowsText ==
    \A variable \in acceptedSetVariables, value \in Values :
       /\ SetThenPrint(variable, value) = <<variable, value>>
             <=> Acceptable(variable, value)
       /\ ~Acceptable(variable, value)
             => NewValue(variable, value) = Stored(variable)

\* C20: 'set VAR X' followed by 'print VAR' prints the decimal numeral of
\* the number X denotes when that number lies in the validated range, and an
\* out-of-range or unparsable X leaves the stored value unchanged; the
\* numeral is the text X only when X is written in decimal without a sign,
\* a leading zero or an exponent.
SetThenPrintShowsNumber ==
    \A variable \in acceptedSetVariables, value \in Values :
       IF Acceptable(variable, value)
       THEN /\ NewValue(variable, value) = Denoted(variable, value)[1]
            /\ SetThenPrint(variable, value)
                  = <<variable, Denoted(variable, value)[2]>>
       ELSE NewValue(variable, value) = Stored(variable)

\* 'set nb-turns-max 010' was followed by 'print nb-turns-max'.
OctalTextPrintedAsEight ==
    /\ nbTurnsMax = 8
    /\ printed = <<"nb-turns-max", <<"8">>>>

\* The six configuration values.
Configuration ==
    <<nbPlayersMax, nbSpecialPlayersMax, nbVisusMax, nbTurnsMax,
      millisecondsBeforeFirstTurn, millisecondsBetweenTurns>>

\* C21: the configuration values change only while the phase is
\* NOT_RUNNING: a step taken once the game is running leaves all six as
\* they were.
ConfigurationFrozenOnceRunning ==
    [][gameState # GAME_NOT_RUNNING => Configuration' = Configuration]_vars

\* Message j written to c's socket is one the server sent after message i.
SentAfter(c, i, j) ==
    /\ i \in 1..Len(wire[c]) /\ j \in 1..Len(wire[c]) /\ i < j
    /\ wire[c][i].dir = "out" /\ wire[c][j].dir = "out"

LoginFillsBuckets ==
    /\ <<gameLogic, players, visus>>' # <<gameLogic, players, visus>>
    /\ Len(players') + Len(visus') + Len(gameLogic')
          > Len(players) + Len(visus) + Len(gameLogic)
    /\ Len(players') = nbPlayersMax /\ Len(visus') = nbVisusMax
    /\ Len(gameLogic') = 1 /\ nbSpecialPlayersMax = 0

\* C23: with autostart on, the accepted login that fills the buckets while
\* the phase is NOT_RUNNING makes the phase RUNNING, with no 'start' typed.
AutostartWhenFull ==
    [][(gameState = GAME_NOT_RUNNING /\ LoginFillsBuckets)
          => gameState' = GAME_RUNNING]_vars

\* A first frame that is not a valid LOGIN: it could not be read, its
\* message type is not LOGIN, its nickname is not one to ten characters
\* without a blank, or its role is none of the three roles.
NotAValidLogin(msg) ==
    \/ msg.err
    \/ msg.message_type # "LOGIN"
    \/ Len(msg.nickname) \notin 1..10
    \/ \E i \in 1..Len(msg.nickname) : msg.nickname[i] = " "
    \/ msg.role \notin {"player", "visualization", "game logic"}

\* The reasons that start with "Invalid first message: ".
InvalidFirstMessageReasons ==
    {"Invalid first message: " \o detail :
        detail \in {"EOF", "Invalid nickname", "Invalid role 'referee'",
                    "Received 'TURN_ACK' message type, while LOGIN was expected"}}

\* The first frame of connection c is handled in this step.
FirstFrameHandled(c) ==
    /\ wire[c] = <<>> /\ wire'[c] # <<>>
    /\ wire'[c][1].dir = "in" /\ wire'[c][1].type = "first"

\* C24: a connection whose first frame is not a valid LOGIN is kicked with
\* a reason starting with "Invalid first message: ", its session is over,
\* and the step leaves the phase and every bucket as they were.
InvalidFirstFrameKicked ==
    [][\A c \in Clients :
          (FirstFrameHandled(c) /\ NotAValidLogin(wire'[c][1].arg)) =>
             /\ Len(wire'[c]) = 2
             /\ wire'[c][2].dir = "out" /\ wire'[c][2].type = "KICK"
             /\ wire'[c][2].arg \in InvalidFirstMessageReasons
             /\ pc'[c] = "closed"
             /\ gameState' = gameState
             /\ <<gameLogic, players, visus>>' = <<gameLogic, players, visus>>]_vars

\* A LOGIN with an unknown role was kicked while a player was registered.
UnknownRoleKicked ==
    \E c \in Clients :
       /\ \E i \in Out(c, "KICK") :
             wire[c][i].arg = "Invalid first message: Invalid role 'referee'"
       /\ Len(players) = 1

\* The session of an accepted game logic is over.
GameLogicGone(g) ==
    /\ role[g] = "game logic" /\ Out(g, "LOGIN_ACK") # {}
    /\ pc[g] = "closed"

\* C25: whenever the game logic fails or disconnects, before the game has
\* started or during play, the surrounding process is given a non-zero
\* exit signal.
GameLogicFailureSignalled ==
    \A g \in Clients :
       GameLogicGone(g) =>
          \E i \in 1..Len(gameLogicExit) : gameLogicExit[i] # 0

\* The sessions registered in a bucket.
Members(bucket) == Range(bucket)

\* C26 as stated: once the phase is RUNNING, no bucket grows.
BucketsNeverGrowOnceRunning ==
    [][gameState = GAME_RUNNING =>
          /\ Len(players') <= Len(players)
          /\ Len(visus') <= Len(visus)
          /\ Len(gameLogic') <= Len(gameLogic)]_vars

\* C26: once the phase is RUNNING, the players and game-logic buckets never
\* grow; the visus bucket grows only by the accepted login of one
\* visualization while it holds fewer than nbVisusMax sessions; and a
\* session leaves a bucket only when it has been kicked.
BucketsFrozenButForVisus ==
    [][gameState = GAME_RUNNING =>
          /\ Members(players') \subseteq Members(players)
          /\ Members(gameLogic') \subseteq Members(gameLogic)
          /\ \A c \in Members(visus') \ Members(visus) :
                /\ pc[c] = "unconnected" /\ role'[c] = "visualization"
                /\ visus' = Append(visus, c)
                /\ Len(visus) < nbVisusMax
                /\ wire'[c] = <<LoginAck>>
          /\ \A c \in (Members(players) \ Members(players'))
                        \cup (Members(visus) \ Members(visus'))
                        \cup (Members(gameLogic) \ Members(gameLogic')) :
                clientState'[c] = CLIENT_KICKED /\ Out(c, "KICK")' # {}]_vars

\* During the game a visualization joined, and was later kicked out of
\* the visus bucket.
VisuJoinedAndLeft ==
    /\ gameState = GAME_RUNNING
    /\ \E c \in lateLogins :
          /\ role[c] = "visualization"
          /\ Out(c, "LOGIN_ACK") # {} /\ Out(c, "KICK") # {}
          /\ c \notin Range(visus)

\* The session of c has left its select for the kick, after a TURN_ACK
\* received while its state was not THINKING.
KickedOutsideThinking(c) ==
    /\ role[c] \in {"player", "visualization"} /\ pc[c] = "kicking"
    /\ kickReason[c] = "Received a TURN_ACK but the client state is not THINKING"

\* C29: a frame received from a player or visualization that is not
\* THINKING always leads to the client being kicked and removed from its
\* bucket: the kick it has left for can be carried out, the coordinator not
\* being stopped with the mutex the kick needs.
FrameOutsideThinkingKicks ==
    \A c \in Clients : KickedOutsideThinking(c) => ~CoordinatorBlocked

\* The prompt is stopped in its send of the start signal, holding the
\* mutex, while the game logic has left the select that receives it.
PromptBlocked ==
    /\ promptpc = "sendStart" /\ mutex = "prompt"
    /\ \A g \in Clients : pc[g] # "waitStart"

\* C30: no task holds the global mutex while it is blocked on a channel
\* operation, so no deadlock is reachable: neither the coordinator nor the
\* prompt is ever stopped in a send with the mutex held.
NoWaitUnderMutex == ~CoordinatorBlocked /\ ~PromptBlocked

\* C31: every write of the control surface to the global state, the phase
\* change of 'start' and each configuration write of 'set', is made while
\* the command interpreter holds the global mutex: no such write happens
\* while another task holds it.
ControlWritesUnderMutex ==
    [][(gameState' # gameState \/ Configuration' # Configuration)
          => mutex = "free" /\ mutex' \in {"free", "prompt"}]_vars

\* The session of the game logic g took a frame, or a read error, in the
\* select that waits for the start signal.
FailedBeforeStart(g) ==
    role[g] = "game logic" /\ pc[g] = "preStartKick"

\* C32: a game logic that sends a frame or disconnects before the start
\* signal is kicked and removed, the phase stays NOT_RUNNING and no DO_INIT
\* is sent to it: from the moment its session has taken the frame, the
\* phase is NOT_RUNNING, the mutex its kick needs is not held by a command,
\* and its socket carries no DO_INIT.
PreStartFailureLeavesNotRunning ==
    \A g \in Clients :
       FailedBeforeStart(g) =>
          /\ gameState = GAME_NOT_RUNNING
          /\ mutex # "prompt"
          /\ Out(g, "DO_INIT") = {}

\* The kick of the logged player or visualization c is carried out.
KickedFromBucket(c) ==
    /\ role[c] \in {"player", "visualization"}
    /\ pc[c] = "kicking" /\ pc'[c] = "closed"

\* The bucket of the role of c, and the bucket of the other role.
OwnBucket(c) == IF role[c] = "player" THEN players ELSE visus

OtherBucket(c) == IF role[c] = "player" THEN visus ELSE players

\* The number of entries of a bucket that are the session d.
Entries(bucket, d) == Cardinality({i \in 1..Len(bucket) : bucket[i] = d})

\* C33: kicking a logged player or visualization removes exactly that
\* session from its own bucket under the global mutex: the bucket shrinks
\* by one, every other session stays in it exactly once, the other bucket
\* is untouched, and no fan-out targets a session whose kick is done.
KickRemovesExactlyThatSession ==
    [][/\ \A c \in Clients :
            KickedFromBucket(c) =>
               /\ mutex = "free"
               /\ Entries(OwnBucket(c), c) = 1
               /\ Len(OwnBucket(c)') = Len(OwnBucket(c)) - 1
               /\ Entries(OwnBucket(c)', c) = 0
               /\ \A d \in Range(OwnBucket(c)) \ {c} :
                     Entries(OwnBucket(c)', d) = 1
               /\ OtherBucket(c)' = OtherBucket(c)
               /\ gameLogic' = gameLogic
       /\ \A i \in 1..Len(FanOutTargets') :
            pc'[FanOutTargets'[i]] # "closed"]_vars

\* The first of two registered players was kicked: the second one is the
\* players bucket, and the first one's socket ends with the KICK.
FirstOfTwoPlayersKicked ==
    \E c, d \in Clients :
       /\ c < d /\ role[c] = "player" /\ role[d] = "player"
       /\ pc[c] = "closed" /\ Out(c, "LOGIN_ACK") # {} /\ Out(c, "KICK") # {}
       /\ players = <<d>> /\ pc[d] = "loop"

\* The game-logic session g has been through its GAME_STARTS section, where
\* initialNbPlayers is set.
GameStartsReached(g) ==
    /\ role[g] = "game logic"
    /\ pc[g] \in {"blocked", "sleepFirst", "turnLoop", "gameEnds"}

\* C34: after the game starts, every player holds a playerID in
\* [0, initialNbPlayers) that no other player holds, and visualizations
\* keep playerID -1.
PlayersHoldDistinctIDs ==
    \A g \in Clients :
       GameStartsReached(g) =>
          /\ \A c \in Range(players) :
                playerID[c] >= 0 /\ playerID[c] < initialNbPlayers
          /\ \A c, d \in Range(players) :
                c # d => playerID[c] # playerID[d]
          /\ \A c \in Range(visus) : playerID[c] = -1

\* The nb_players the DO_INIT frames sent to g carried.
NbPlayersOfDoInit(g) == {wire[g][i].arg[1] : i \in Out(g, "DO_INIT")}

\* C35: within one game the player count is one number: the nb_players of
\* DO_INIT is initialNbPlayers, the nb_players of GAME_STARTS and the bound
\* that winner_player_id is validated against, even if a player is kicked
\* or disconnects between DO_INIT and DO_INIT_ACK.
PlayerCountConsistent ==
    \A g \in Clients :
       GameStartsReached(g) => NbPlayersOfDoInit(g) = {initialNbPlayers}

\* The receive of the start signal is pending: the registered game logic is
\* in the select that waits for it.
StartSignalAwaited ==
    \E g \in Clients : gameLogic = <<g>> /\ pc[g] = "waitStart"

\* C36: a 'start' command always completes and releases the global mutex,
\* even when the game logic sends a frame or disconnects at the same
\* moment: while the command is in its send of the start signal under the
\* mutex, the game logic is there to receive it.
StartAlwaysCompletes ==
    (promptpc = "sendStart" /\ mutex = "prompt") => StartSignalAwaited

====
